---- MODULE Spec2Model ----
(***************************************************************************)
(* Fire History Maker 2025 (persistent variant):                           *)
(* FireHistoryMakerBREPS_2025_Version17.py                                 *)
(*                                                                         *)
(* The workspace (one geodatabase) is a function from collection names to  *)
(* collections; a collection is a schema (a sequence of fields) and a      *)
(* sequence of records.  The pipeline is one action per engine call of     *)
(* FireHistoryMakerBREPS_2025, in the order of the source.  The geo-       *)
(* processing engine (arcpy) is modelled by what the pipeline relies on:   *)
(* existence, field lists, field add/calculate/delete, and the overlay     *)
(* tools reduced to which records they keep.                               *)
(***************************************************************************)
EXTENDS Integers, Sequences, FiniteSets, TLC

VARIABLES
  ws,        \* workspace: collection name -> collection
  pc,        \* label of the next engine call of FireHistoryMakerBREPS_2025
  sub,       \* position inside add_and_calc_field: "entry" or "added"
  status,    \* "running", "done", "raised" (an exception ended the run), "aborted"
  prevEnd,   \* how the previous run of the script ended ("none" in the first run)
  existed,   \* collections that existed when the current run started
  writes,    \* <<collection, operation>> write calls issued in the current run
  delLog,    \* every field named in a DeleteField_management call so far
  fc,        \* field normalizer harness: the collection under test
  fcall,     \* field normalizer harness: the arguments of the call
  fhist,     \* field normalizer harness: results of the calls made so far
  rm         \* month-repair harness: input value, table before and after

vars == <<ws, pc, sub, status, prevEnd, existed, writes, delLog, fc, fcall, fhist, rm>>

pipeVars == <<ws, pc, sub, status, prevEnd, existed, writes, delLog>>

harnessVars == <<fc, fcall, fhist, rm>>

(***************************************************************************)
(* Bounds of the model.                                                    *)
(***************************************************************************)
\* Largest month component tried by the month-repair harness.
MaxMonth == 19

(***************************************************************************)
(* Values.  A cell value is null, an integer, a string (a sequence of      *)
(* one-character strings; a coded text such as 'BURN' is one token), a     *)
(* date object (year, month, day packed in n) or a geometry (feature id n, *)
(* region in s).                                                           *)
(***************************************************************************)
Null == [k |-> "null", n |-> 0, s |-> <<>>]

IntV(i) == [k |-> "int", n |-> i, s |-> <<>>]

StrV(str) == [k |-> "str", n |-> 0, s |-> str]

Tok(t) == [k |-> "str", n |-> 0, s |-> <<t>>]

DateV(y, m, d) == [k |-> "date", n |-> y * 10000 + m * 100 + d, s |-> <<>>]

GeomV(id, region) == [k |-> "geom", n |-> id, s |-> <<region>>]

Ok(v) == [ok |-> TRUE, v |-> v]

Raise == [ok |-> FALSE, v |-> Null]

Min(a, b) == IF a < b THEN a ELSE b

(***************************************************************************)
(* Python's str and int on the value shapes above.                         *)
(***************************************************************************)
Digits == <<"0", "1", "2", "3", "4", "5", "6", "7", "8", "9">>

IsDigit(c) == \E i \in 1..10 : Digits[i] = c

DigitVal(c) == (CHOOSE i \in 1..10 : Digits[i] = c) - 1

AllDigits(str) == Len(str) > 0 /\ \A i \in 1..Len(str) : IsDigit(str[i])

RECURSIVE DigitsValue(_)
DigitsValue(str) ==
  IF str = <<>> THEN 0
  ELSE 10 * DigitsValue(SubSeq(str, 1, Len(str) - 1)) + DigitVal(str[Len(str)])

\* int(s) for a str: digits with an optional sign; anything else is a ValueError.
PyInt(str) ==
  IF AllDigits(str) THEN [ok |-> TRUE, n |-> DigitsValue(str)]
  ELSE IF Len(str) > 1 /\ str[1] \in {"-", "+"} /\ AllDigits(Tail(str))
       THEN [ok |-> TRUE,
             n |-> IF str[1] = "-" THEN 0 - DigitsValue(Tail(str)) ELSE DigitsValue(Tail(str))]
       ELSE [ok |-> FALSE, n |-> 0]

RECURSIVE PyStrNat(_)
PyStrNat(i) ==
  IF i < 10 THEN <<Digits[i + 1]>> ELSE PyStrNat(i \div 10) \o <<Digits[(i % 10) + 1]>>

\* str(i) for an int.
PyStr(i) == IF i < 0 THEN <<"-">> \o PyStrNat(0 - i) ELSE PyStrNat(i)

\* s[a:b] for a str.
Slice(str, a, b) == SubSeq(str, a + 1, Min(b, Len(str)))

RECURSIVE Replace(_, _)
\* s.replace(c, '') for a one-character c.
Replace(str, c) ==
  IF str = <<>> THEN <<>>
  ELSE IF Head(str) = c THEN Replace(Tail(str), c)
       ELSE <<Head(str)>> \o Replace(Tail(str), c)

\* Zero-padded decimal of width w, as strftime writes %Y (w = 4), %m and %d (w = 2).
RECURSIVE Pad(_, _)
Pad(i, w) == IF w = 0 THEN <<>> ELSE Pad(i \div 10, w - 1) \o <<Digits[(i % 10) + 1]>>


(***************************************************************************)
(* Letter case.  Names is every field and type name of the model;          *)
(* str.lower and str.upper are tabulated over it.                          *)
(***************************************************************************)
Names ==
  <<
    "FIRETYPE", "SEASON", "FIRE_NO", "NAME", "START_DATE", "START_DATE_INT", "TREATMENT_TYPE",
    "FIRE_SEVERITY", "FIRE_COVER", "FIREKEY", "CREATE_DATE", "UPDATE_DATE", "AREA_HA",
    "METHOD", "METHOD_COMMENTS", "ACCURACY", "DSE_ID", "CFA_ID", "DISTRICT_ID", "Area_calc",
    "Centroid_x", "Centroid_y", "Shape_length_1", "Shape_area_1", "Shape_length_12",
    "Shape_area_12", "Shape_length_12_13", "Shape_area_12_13", "Shape_length_12_13_14",
    "Shape_area_12_13_14", "LOGHISTID", "FMA", "COUPEADD", "COMPART", "COUPENO", "BLOCK",
    "DECADE", "SILVSYS", "FORESTYPE", "STARTDATE", "MAPLOGSRC", "LH_ID", "COUPE_NAME",
    "ENDDATE", "HARV_ORG", "HECTARES", "X_FMA", "AREASQM", "X_SILVSYS", "X_BLOCK",
    "X_FORETYPE", "SECTION_SD", "CAPTUREMET", "CAPTURESOU", "COMMENTS", "DATERELIAB",
    "FEATURESOU", "FINANCIALY", "FIREDATE", "FIREYEAR", "IMAGEINFOR", "INCIDENTNA",
    "INCIDENTNU", "INCIDENTTY", "Source", "Burn_Date", "OBJECTID", "Shape", "Shape_Area",
    "Shape_Length", "SOURCE", "SHAPE", "SHAPE_Area", "SHAPE_Length", "StartDate", "Label",
    "String", "Integer", "Date", "Geometry", "OID", "Double", "TEXT", "LONG", "DATE", "DOUBLE"
  >>

LowerNames ==
  <<
    "firetype", "season", "fire_no", "name", "start_date", "start_date_int", "treatment_type",
    "fire_severity", "fire_cover", "firekey", "create_date", "update_date", "area_ha",
    "method", "method_comments", "accuracy", "dse_id", "cfa_id", "district_id", "area_calc",
    "centroid_x", "centroid_y", "shape_length_1", "shape_area_1", "shape_length_12",
    "shape_area_12", "shape_length_12_13", "shape_area_12_13", "shape_length_12_13_14",
    "shape_area_12_13_14", "loghistid", "fma", "coupeadd", "compart", "coupeno", "block",
    "decade", "silvsys", "forestype", "startdate", "maplogsrc", "lh_id", "coupe_name",
    "enddate", "harv_org", "hectares", "x_fma", "areasqm", "x_silvsys", "x_block",
    "x_foretype", "section_sd", "capturemet", "capturesou", "comments", "datereliab",
    "featuresou", "financialy", "firedate", "fireyear", "imageinfor", "incidentna",
    "incidentnu", "incidentty", "source", "burn_date", "objectid", "shape", "shape_area",
    "shape_length", "source", "shape", "shape_area", "shape_length", "startdate", "label",
    "string", "integer", "date", "geometry", "oid", "double", "text", "long", "date", "double"
  >>

UpperNames ==
  <<
    "FIRETYPE", "SEASON", "FIRE_NO", "NAME", "START_DATE", "START_DATE_INT", "TREATMENT_TYPE",
    "FIRE_SEVERITY", "FIRE_COVER", "FIREKEY", "CREATE_DATE", "UPDATE_DATE", "AREA_HA",
    "METHOD", "METHOD_COMMENTS", "ACCURACY", "DSE_ID", "CFA_ID", "DISTRICT_ID", "AREA_CALC",
    "CENTROID_X", "CENTROID_Y", "SHAPE_LENGTH_1", "SHAPE_AREA_1", "SHAPE_LENGTH_12",
    "SHAPE_AREA_12", "SHAPE_LENGTH_12_13", "SHAPE_AREA_12_13", "SHAPE_LENGTH_12_13_14",
    "SHAPE_AREA_12_13_14", "LOGHISTID", "FMA", "COUPEADD", "COMPART", "COUPENO", "BLOCK",
    "DECADE", "SILVSYS", "FORESTYPE", "STARTDATE", "MAPLOGSRC", "LH_ID", "COUPE_NAME",
    "ENDDATE", "HARV_ORG", "HECTARES", "X_FMA", "AREASQM", "X_SILVSYS", "X_BLOCK",
    "X_FORETYPE", "SECTION_SD", "CAPTUREMET", "CAPTURESOU", "COMMENTS", "DATERELIAB",
    "FEATURESOU", "FINANCIALY", "FIREDATE", "FIREYEAR", "IMAGEINFOR", "INCIDENTNA",
    "INCIDENTNU", "INCIDENTTY", "SOURCE", "BURN_DATE", "OBJECTID", "SHAPE", "SHAPE_AREA",
    "SHAPE_LENGTH", "SOURCE", "SHAPE", "SHAPE_AREA", "SHAPE_LENGTH", "STARTDATE", "LABEL",
    "STRING", "INTEGER", "DATE", "GEOMETRY", "OID", "DOUBLE", "TEXT", "LONG", "DATE", "DOUBLE"
  >>

NameSet == {Names[i] : i \in 1..Len(Names)}

LowerTable == [name \in NameSet |-> LowerNames[CHOOSE i \in 1..Len(Names) : Names[i] = name]]

UpperTable == [name \in NameSet |-> UpperNames[CHOOSE i \in 1..Len(Names) : Names[i] = name]]

\* name.lower()
Lower(name) == LowerTable[name]

\* name.upper()
Upper(name) == UpperTable[name]

(***************************************************************************)
(* The code blocks handed to CalculateField_management.                    *)
(***************************************************************************)
Chars20230101 == <<"2", "0", "2", "3", "0", "1", "0", "1">>

\* str(val) for the cell values a code block can receive.
StrOf(val) == IF val.k = "int" THEN PyStr(val.n) ELSE val.s

\* Step 3: def updateDate(value)
updateDate(value) == IF value.k = "null" THEN StrV(Chars20230101) ELSE value

round_mth_above_13(date) ==
  LET d0 == IF date.k = "int" THEN PyStr(date.n) ELSE date.s
      yr == Slice(d0, 0, 4)
      mth == Slice(d0, 4, 6)
      day == Slice(d0, 6, 8)
      m == PyInt(mth)
  IN  IF date.k \notin {"int", "str"} \/ ~m.ok THEN Raise
      ELSE LET d1 == IF m.n > 13 THEN yr \o <<"1", "2">> \o day ELSE d0
               r == PyInt(d1)
           IN  IF r.ok THEN Ok(IntV(r.n)) ELSE Raise

\* Step 4: def round_mth(date).  None[0:4] and int('') raise.
round_mth(date) ==
  LET d0 == IF date.k = "int" THEN PyStr(date.n) ELSE date.s
      yr == Slice(d0, 0, 4)
      mth == Slice(d0, 4, 6)
      day == Slice(d0, 6, 8)
      m == PyInt(mth)
  IN  IF date.k \notin {"int", "str"} \/ ~m.ok THEN Raise
      ELSE LET d1 == IF m.n > 12 THEN yr \o <<"1", "2">> \o day ELSE d0
               r == PyInt(d1)
           IN  IF r.ok THEN Ok(IntV(r.n)) ELSE Raise

IsLeap(y) == (y % 4 = 0 /\ y % 100 # 0) \/ y % 400 = 0

DaysIn(y, m) ==
  IF m = 2 THEN (IF IsLeap(y) THEN 29 ELSE 28)
  ELSE IF m \in {4, 6, 9, 11} THEN 30 ELSE 31

\* val.strftime("%Y%m%d") of a date object.
Strftime(packed) ==
  Pad(packed \div 10000, 4) \o Pad((packed \div 100) % 100, 2) \o Pad(packed % 100, 2)

\* datetime.datetime.strptime(str, "%Y-%m-%d"): four year digits, one or two month
\* digits, one or two day digits, a date of the calendar, nothing left over.
Strptime(str) ==
  LET dashes == {i \in 1..Len(str) : str[i] = "-"}
      j == CHOOSE i \in dashes : i > 5
      ys == SubSeq(str, 1, 4)
      ms == SubSeq(str, 6, j - 1)
      ds == SubSeq(str, j + 1, Len(str))
  IN  IF /\ Cardinality(dashes) = 2
         /\ 5 \in dashes
         /\ \E i \in dashes : i > 5
         /\ AllDigits(ys) /\ AllDigits(ms) /\ AllDigits(ds)
         /\ Len(ms) <= 2 /\ Len(ds) <= 2
         /\ DigitsValue(ys) >= 1
         /\ DigitsValue(ms) \in 1..12
         /\ DigitsValue(ds) \in 1..DaysIn(DigitsValue(ys), DigitsValue(ms))
      THEN [ok |-> TRUE,
            packed |-> DigitsValue(ys) * 10000 + DigitsValue(ms) * 100 + DigitsValue(ds)]
      ELSE [ok |-> FALSE, packed |-> 0]

format_enddate_dashes_only(val) ==
  IF val.k = "null" THEN Ok(Null)
  ELSE IF val.k = "date" THEN Ok(IntV(PyInt(Strftime(val.n)).n))
  ELSE LET dt == Strptime(StrOf(val))
           r == PyInt(Replace(StrOf(val), "-"))
       IN  IF dt.ok THEN Ok(IntV(PyInt(Strftime(dt.packed)).n))
           ELSE IF r.ok THEN Ok(IntV(r.n)) ELSE Raise

\* Step 11: def format_enddate(val)
format_enddate(val) ==
  IF val.k = "null" THEN Ok(Null)
  ELSE IF val.k = "date" THEN Ok(IntV(PyInt(Strftime(val.n)).n))
  ELSE LET dt == Strptime(StrOf(val))
           r == PyInt(Replace(Replace(StrOf(val), "-"), "/"))
       IN  IF dt.ok THEN Ok(IntV(PyInt(Strftime(dt.packed)).n))
           ELSE IF r.ok THEN Ok(IntV(r.n)) ELSE Raise

format_firedate_null_on_error(val) ==
  IF val.k = "null" THEN Ok(Null)
  ELSE IF val.k = "date" THEN Ok(IntV(PyInt(Strftime(val.n)).n))
  ELSE LET dt == Strptime(StrOf(val))
           r == PyInt(Replace(Replace(StrOf(val), "-"), "/"))
       IN  IF dt.ok THEN Ok(IntV(PyInt(Strftime(dt.packed)).n))
           ELSE IF r.ok THEN Ok(IntV(r.n)) ELSE Ok(Null)

\* Step 15: def format_firedate(val)
format_firedate(val) ==
  IF val.k = "null" THEN Ok(Null)
  ELSE IF val.k = "date" THEN Ok(IntV(PyInt(Strftime(val.n)).n))
  ELSE LET dt == Strptime(StrOf(val))
           r == PyInt(Replace(Replace(StrOf(val), "-"), "/"))
       IN  IF dt.ok THEN Ok(IntV(PyInt(Strftime(dt.packed)).n))
           ELSE IF r.ok THEN Ok(IntV(r.n)) ELSE Raise

\* Step 15b: def format_startdate(val)
format_startdate(val) ==
  IF val.k = "null" THEN Ok(Null)
  ELSE IF val.k = "date" THEN Ok(IntV(PyInt(Strftime(val.n)).n))
  ELSE LET dt == Strptime(StrOf(val))
           r == PyInt(Replace(Replace(StrOf(val), "-"), "/"))
       IN  IF dt.ok THEN Ok(IntV(PyInt(Strftime(dt.packed)).n))
           ELSE IF r.ok THEN Ok(IntV(r.n)) ELSE Raise

(***************************************************************************)
(* Collections and the engine's field operations.                          *)
(* A field's type is the name ListFields reports for it (Field.type):     *)
(* "String", "Integer", "Date", "Double", "OID", "Geometry"; lines 40 and  *)
(* 260 compare against these names.  AddField_management takes keywords:   *)
(* "TEXT" makes a "String" field (the pair line 40 allows for) and "LONG"  *)
(* makes an "Integer" field.                                               *)
(***************************************************************************)
NoColl == [present |-> FALSE, fields |-> <<>>, recs |-> <<>>]

Coll(fields, recs) == [present |-> TRUE, fields |-> fields, recs |-> recs]

Fld(name, type) == [name |-> name, type |-> type]

Res(ok, c) == [ok |-> ok, c |-> c]

\* [f.name for f in arcpy.ListFields(fc)]
FieldNames(c) == {c.fields[i].name : i \in 1..Len(c.fields)}

\* Index of the first field whose name equals name up to letter case, 0 if none.
FindField(c, name) ==
  LET hits == {i \in 1..Len(c.fields) : Lower(c.fields[i].name) = Lower(name)}
  IN  IF hits = {} THEN 0 ELSE CHOOSE i \in hits : \A j \in hits : i <= j

\* The stored name of the field a name resolves to.
StoredName(c, name) == c.fields[FindField(c, name)].name

\* The value of a record under a field name, whatever its letter case.
Get(c, rec, name) == rec[StoredName(c, name)]

AddedType(keyword) ==
  IF Upper(keyword) = "TEXT" THEN "String"
  ELSE IF Upper(keyword) = "LONG" THEN "Integer"
  ELSE IF Upper(keyword) = "DATE" THEN "Date"
  ELSE "Double"

\* arcpy.AddField_management: fails on a missing collection or a name in use.
AddField_management(c, field_name, field_type) ==
  IF ~c.present \/ FindField(c, field_name) # 0 THEN Res(FALSE, c)
  ELSE Res(TRUE,
           [c EXCEPT
              !.fields = Append(c.fields, Fld(field_name, AddedType(field_type))),
              !.recs = [i \in 1..Len(c.recs) |->
                          [f \in FieldNames(c) \cup {field_name} |->
                             IF f = field_name THEN Null ELSE c.recs[i][f]]]])

\* What a field of the given type stores when a code block returns v.
Coerce(type, v) ==
  IF v.k = "null" THEN Ok(Null)
  ELSE IF type = "String" THEN Ok(IF v.k = "int" THEN StrV(PyStr(v.n)) ELSE v)
  ELSE IF type = "Integer"
       THEN IF v.k = "int" THEN Ok(v)
            ELSE IF v.k = "str" /\ PyInt(v.s).ok THEN Ok(IntV(PyInt(v.s).n))
            ELSE Raise
  ELSE Ok(v)

\* A calculation expression (calc_expr with its code_block): fn applied to the field
\* arg, as in "updateDate(!START_DATE_INT!)"; "field" is the bare "!arg!"; "literal"
\* is a quoted text such as '"SA"'; "append" stands for a caller's expression that
\* reads a field and returns its text with lit added, null read as the empty text.
Expr(fn, arg, lit) == [fn |-> fn, arg |-> arg, lit |-> lit]

\* The per-record value of an expression; a field the expression names must exist.
Eval(expr, c, rec) ==
  IF expr.fn = "literal" THEN Ok(Tok(expr.lit))
  ELSE IF FindField(c, expr.arg) = 0 THEN Raise
  ELSE LET val == Get(c, rec, expr.arg)
       IN  IF val.k = "geom" THEN Raise
           ELSE IF expr.fn = "field" THEN Ok(val)
           ELSE IF expr.fn = "updateDate" THEN Ok(updateDate(val))
           ELSE IF expr.fn = "round_mth" THEN round_mth(val)
           ELSE IF expr.fn = "format_enddate" THEN format_enddate(val)
           ELSE IF expr.fn = "format_firedate" THEN format_firedate(val)
           ELSE IF expr.fn = "format_startdate" THEN format_startdate(val)
           ELSE IF expr.fn = "append" THEN
                  Ok(StrV((IF val.k = "null" THEN <<>> ELSE StrOf(val)) \o <<expr.lit>>))
           ELSE Raise

\* arcpy.CalculateField_management(fc, field, expression, "PYTHON3", code_block):
\* every record's field is set to the coerced value of the expression; a missing
\* collection or field, or a record whose evaluation raises, fails the call.
CalculateField_management(c, field, expr) ==
  IF ~c.present \/ FindField(c, field) = 0 THEN Res(FALSE, c)
  ELSE LET name == StoredName(c, field)
           type == c.fields[FindField(c, field)].type
           new == [i \in 1..Len(c.recs) |->
                     LET e == Eval(expr, c, c.recs[i])
                     IN  IF e.ok THEN Coerce(type, e.v) ELSE Raise]
       IN  IF \E i \in 1..Len(c.recs) : ~new[i].ok THEN Res(FALSE, c)
           ELSE Res(TRUE, [c EXCEPT !.recs = [i \in 1..Len(c.recs) |->
                                                [c.recs[i] EXCEPT ![name] = new[i].v]]])

\* Fields the engine refuses to delete: the object id, the geometry and its measures.
EngineRequired(f) ==
  f.type \in {"OID", "Geometry"} \/ Lower(f.name) \in {Lower("Shape_Area"), Lower("Shape_Length")}

\* arcpy.DeleteField_management(fc, drop): fails on a missing or a required field.
DeleteField_management(c, drop) ==
  IF \/ ~c.present
     \/ \E i \in 1..Len(drop) : drop[i] \notin FieldNames(c)
     \/ \E i \in 1..Len(c.fields) :
          EngineRequired(c.fields[i]) /\ \E j \in 1..Len(drop) : drop[j] = c.fields[i].name
  THEN Res(FALSE, c)
  ELSE LET gone == {drop[i] : i \in 1..Len(drop)}
           kept == SelectSeq(c.fields, LAMBDA f : f.name \notin gone)
       IN  Res(TRUE, [c EXCEPT
                        !.fields = kept,
                        !.recs = [i \in 1..Len(c.recs) |->
                                    [f \in FieldNames(c) \ gone |-> c.recs[i][f]]]])

(***************************************************************************)
(* add_and_calc_field                                                      *)
(***************************************************************************)
TypeMatches_by_type_created(field_type, found_type) == found_type = AddedType(field_type)

\* Line 40: the test under which an existing field is calculated.
TypeMatches(field_type, found_type) ==
  LET field_type_check == Upper(field_type)
      arcpy_type == Upper(found_type)
  IN  arcpy_type = field_type_check \/ (field_type_check = "TEXT" /\ arcpy_type = "STRING")

add_and_calc_field_calc_always(c, field_name, field_type, calc_expr) ==
  LET field_found == FindField(c, field_name)
  IN  IF field_found = 0
      THEN LET a == AddField_management(c, field_name, field_type)
           IN  IF a.ok THEN CalculateField_management(a.c, field_name, calc_expr) ELSE a
      ELSE CalculateField_management(c, c.fields[field_found].name, calc_expr)

add_and_calc_field_no_first_calc(c, field_name, field_type, calc_expr) ==
  LET field_found == FindField(c, field_name)
  IN  IF field_found = 0
      THEN AddField_management(c, field_name, field_type)
      ELSE IF TypeMatches(field_type, c.fields[field_found].type)
           THEN CalculateField_management(c, c.fields[field_found].name, calc_expr)
           ELSE Res(TRUE, c)

\* def add_and_calc_field(fc, field_name, field_type, calc_expr, code_block):
\* the collection after the call, and whether the call returned (ok) or raised.
add_and_calc_field(c, field_name, field_type, calc_expr) ==
  LET field_found == FindField(c, field_name)
  IN  IF ~c.present THEN Res(FALSE, c)
      ELSE IF field_found = 0
      THEN LET a == AddField_management(c, field_name, field_type)
           IN  IF a.ok THEN CalculateField_management(a.c, field_name, calc_expr) ELSE a
      ELSE IF TypeMatches(field_type, c.fields[field_found].type)
           THEN CalculateField_management(c, c.fields[field_found].name, calc_expr)
           ELSE Res(TRUE, c)

(***************************************************************************)
(* The overlay and copy tools, reduced to the records they keep.  A        *)
(* feature lies in one region; an overlay layer's feature covers regions.  *)
(***************************************************************************)
\* The field of geometry type and a record's region.
GeometryField(c) == CHOOSE i \in 1..Len(c.fields) : c.fields[i].type = "Geometry"

HasGeometry(c) == \E i \in 1..Len(c.fields) : c.fields[i].type = "Geometry"

Region(c, rec) == rec[c.fields[GeometryField(c)].name].s[1]

Covers(extent, region) ==
  \/ extent = "VIC_ALL" /\ region \in {"VIC", "VIC_LOW"}
  \/ extent = "LOW_ALL" /\ region = "VIC_LOW"

Covered(c, rec, layer) ==
  \E i \in 1..Len(layer.recs) : Covers(Region(layer, layer.recs[i]), Region(c, rec))

\* arcpy.Erase_analysis(in_features, erase_features, out): the features not covered.
Erase_analysis(c, layer) ==
  IF ~c.present \/ ~layer.present \/ ~HasGeometry(c) \/ ~HasGeometry(layer)
  THEN Res(FALSE, NoColl)
  ELSE Res(TRUE, [c EXCEPT !.recs = SelectSeq(c.recs, LAMBDA r : ~Covered(c, r, layer))])

\* arcpy.Clip_analysis(in_features, clip_features, out): the features covered.
Clip_analysis(c, layer) ==
  IF ~c.present \/ ~layer.present \/ ~HasGeometry(c) \/ ~HasGeometry(layer)
  THEN Res(FALSE, NoColl)
  ELSE Res(TRUE, [c EXCEPT !.recs = SelectSeq(c.recs, LAMBDA r : Covered(c, r, layer))])

\* SQL comparisons: a comparison with a null is unknown, and unknown selects nothing.
TextEq(v, t) == v.k = "str" /\ v.s = <<t>>

TextNe(v, t) == v.k = "str" /\ v.s # <<t>>

\* x IN (a, b, ..., NULL) is true only when x equals one of the non-null items.
TextIn(v, items) == \E t \in items : TextEq(v, t)

\* The fields a where clause names.
WhereFields(where) ==
  IF where = "burnt" THEN {"FIRE_SEVERITY"}
  ELSE IF where = "mincover" THEN {"SEASON", "FIRE_COVER"}
  ELSE IF where = "bushfires" THEN {"FIRETYPE"}
  ELSE IF where = "burns" THEN {"FIRETYPE", "TREATMENT_TYPE"}
  ELSE IF where = "silvsys" THEN {"SILVSYS"}
  ELSE {"ENDDATE"}

\* The where clauses of the six Select_analysis calls, true when SQL says true.
Where(where, c, rec) ==
  IF where = "burnt" THEN TextNe(Get(c, rec, "FIRE_SEVERITY"), "UNBURNT")
  ELSE IF where = "mincover" THEN
    LET season == Get(c, rec, "SEASON")
        cover == Get(c, rec, "FIRE_COVER")
    IN  \/ season.k = "int" /\ season.n < 2012
        \/ /\ season.k = "int" /\ season.n >= 2012
           /\ TextIn(cover, {"30-49", "50-69", "70-89", "90-100", "UNKNOWN"})
  ELSE IF where = "bushfires" THEN TextNe(Get(c, rec, "FIRETYPE"), "BURN")
  ELSE IF where = "burns" THEN
    /\ TextEq(Get(c, rec, "FIRETYPE"), "BURN")
    /\ TextIn(Get(c, rec, "TREATMENT_TYPE"),
              {"FUEL REDUCTION", "ECOLOGICAL", "NOT DETERMINED", "OTHER"})
  ELSE IF where = "silvsys" THEN TextIn(Get(c, rec, "SILVSYS"), {"CFE", "GSE", "RRH", "STR"})
  ELSE Get(c, rec, "ENDDATE").k # "null"

\* arcpy.Select_analysis(in_features, out, where_clause)
Select_analysis(c, where) ==
  IF ~c.present \/ \E f \in WhereFields(where) : FindField(c, f) = 0 THEN Res(FALSE, NoColl)
  ELSE Res(TRUE, [c EXCEPT !.recs = SelectSeq(c.recs, LAMBDA r : Where(where, c, r))])

\* arcpy.Project_management(in_dataset, out_dataset, vicgrid)
Project_management(c) == IF c.present THEN Res(TRUE, c) ELSE Res(FALSE, NoColl)

\* arcpy.CopyFeatures_management(in_features, out)
CopyFeatures_management(c) == IF c.present THEN Res(TRUE, c) ELSE Res(FALSE, NoColl)

RECURSIVE MergeFields(_, _)
\* The output schema of a merge: the inputs' fields in order, one per name up to case.
MergeFields(acc, more) ==
  IF more = <<>> THEN acc
  ELSE IF \E i \in 1..Len(acc) : Lower(acc[i].name) = Lower(Head(more).name)
       THEN MergeFields(acc, Tail(more))
       ELSE MergeFields(Append(acc, Head(more)), Tail(more))

RECURSIVE AllFields(_)
AllFields(cs) == IF cs = <<>> THEN <<>> ELSE Head(cs).fields \o AllFields(Tail(cs))

RECURSIVE MergeRecs(_, _)
MergeRecs(cs, names) ==
  IF cs = <<>> THEN <<>>
  ELSE LET c == Head(cs)
       IN  [i \in 1..Len(c.recs) |->
              [f \in names |-> IF FindField(c, f) = 0 THEN Null ELSE Get(c, c.recs[i], f)]]
           \o MergeRecs(Tail(cs), names)

Merge_management_no_empty_input(cs) ==
  IF \E i \in 1..Len(cs) : ~cs[i].present \/ cs[i].recs = <<>> THEN Res(FALSE, NoColl)
  ELSE LET fields == MergeFields(<<>>, AllFields(cs))
       IN  Res(TRUE, Coll(fields, MergeRecs(cs, {fields[i].name : i \in 1..Len(fields)})))

\* arcpy.Merge_management(inputs, output): the union of the schemas, the records of
\* every input, a field an input lacks left null.
Merge_management(cs) ==
  IF \E i \in 1..Len(cs) : ~cs[i].present THEN Res(FALSE, NoColl)
  ELSE LET fields == MergeFields(<<>>, AllFields(cs))
       IN  Res(TRUE, Coll(fields, MergeRecs(cs, {fields[i].name : i \in 1..Len(fields)})))

\* Sort key of a cell: a null sorts below every number.
SortKey(v) == IF v.k = "null" THEN 0 - 1 ELSE v.n

RECURSIVE InsertDescending(_, _, _)
InsertDescending(sorted, rec, name) ==
  IF sorted = <<>> THEN <<rec>>
  ELSE IF SortKey(rec[name]) > SortKey(Head(sorted)[name])
       THEN <<rec>> \o sorted
       ELSE <<Head(sorted)>> \o InsertDescending(Tail(sorted), rec, name)

RECURSIVE SortDescending(_, _)
SortDescending(recs, name) ==
  IF recs = <<>> THEN <<>>
  ELSE InsertDescending(SortDescending(SubSeq(recs, 1, Len(recs) - 1), name),
                        recs[Len(recs)], name)

Sort_management_as_stored(c, field) ==
  IF ~c.present \/ FindField(c, field) = 0 THEN Res(FALSE, NoColl) ELSE Res(TRUE, c)

\* arcpy.Sort_management(in, out, [["Burn_Date", "DESCENDING"]], spatial_sort_method="UR")
Sort_management(c, field) ==
  IF ~c.present \/ FindField(c, field) = 0 THEN Res(FALSE, NoColl)
  ELSE Res(TRUE, [c EXCEPT !.recs = SortDescending(c.recs, StoredName(c, field))])

(***************************************************************************)
(* Names of the collections (lines 50-74).                                 *)
(***************************************************************************)
NPWSFireHistory == "NPWSFireHistory"
VicShape_vg94 == "VicShape_vg94"
DEECA_FIRE_HISTORY_TREATED == "FIRE_HISTORY_TREATED"
ECOFIRE_NotfeasibletotreatLow == "ECOFIRE_NotfeasibletotreatLow"
LASTLOG25 == "LASTLOG25"
SA_FireHistory == "FIREMGT_FireHistory_GDA94"
NPWS_FH23_VG94_Er == "NPWS_FH23_VG94_Er"
FIRE_HISTORY_TREATED_Select == "FIRE_HISTORY_TREATED_Select"
FIRE_HISTORY_vg94_post2011_mincover == "FIRE_HISTORY_vg94_mincover"
FIRE_HISTORY_vg94_Bushfires == "FIRE_HISTORY_vg94_Bushfires"
FIRE_HISTORY_vg94_Burns == "FIRE_HISTORY_vg94_Burns"
FIRE_HISTORY_vg94_Burns_Treatable == "FIRE_HISTORY_vg94_Burns_Treatable"
LASTLOG25_filter == "LASTLOG25_filter"
LASTLOG25_dates == "LASTLOG25_dates"
LASTLOG_vg94_DF == "LASTLOG_vg94_DF"
FIRE_HISTORY_vg94_merge1 == "FIRE_HISTORY_vg94_merge1"
FIRE_HISTORY_vg94_merge1_Cli == "FIRE_HISTORY_vg94_merge1_Cli"
SA_FH_VG94_Er == "SA_FH23_VG94_Er"
FH_merge == "FH_merge"
fh_merge_vg94 == "FH_merge_vg94"
BREPS_FireHistory_2025 == "BREPS_FireHistory_2025"
BREPS_FireHistory_2025_Clean == "BREPS_FireHistory_2025_Clean"

RawInputs ==
  {NPWSFireHistory, VicShape_vg94, DEECA_FIRE_HISTORY_TREATED, ECOFIRE_NotfeasibletotreatLow,
   LASTLOG25, SA_FireHistory}

\* The outputs of the stages behind an "if not exists(...)" guard.
GuardedOutputs ==
  {NPWS_FH23_VG94_Er, FIRE_HISTORY_TREATED_Select, FIRE_HISTORY_vg94_post2011_mincover,
   FIRE_HISTORY_vg94_Bushfires, FIRE_HISTORY_vg94_Burns, FIRE_HISTORY_vg94_Burns_Treatable,
   LASTLOG25_filter, LASTLOG25_dates, LASTLOG_vg94_DF, FIRE_HISTORY_vg94_merge1,
   FIRE_HISTORY_vg94_merge1_Cli, SA_FH_VG94_Er, FH_merge, fh_merge_vg94,
   BREPS_FireHistory_2025, BREPS_FireHistory_2025_Clean}

CollNames == RawInputs \cup GuardedOutputs

exists_ignored(fc_name) == FALSE

\* def exists(fc_name)
exists(fc_name) == ws[fc_name].present

bushfire_drop_fields ==
  <<
    "FIRETYPE", "SEASON", "FIRE_NO", "NAME", "START_DATE", "START_DATE_INT", "TREATMENT_TYPE",
    "FIRE_SEVERITY", "FIRE_COVER", "FIREKEY", "CREATE_DATE", "UPDATE_DATE", "AREA_HA",
    "METHOD", "METHOD_COMMENTS", "ACCURACY", "DSE_ID", "CFA_ID", "DISTRICT_ID", "Area_calc",
    "Centroid_x", "Centroid_y", "Shape_length_1", "Shape_area_1", "Shape_length_12",
    "Shape_area_12", "Shape_length_12_13", "Shape_area_12_13"
  >>

lastlog_drop_fields ==
  <<
    "LOGHISTID", "FMA", "COUPEADD", "COMPART", "COUPENO", "BLOCK", "DECADE", "SEASON",
    "SILVSYS", "FORESTYPE", "STARTDATE", "MAPLOGSRC", "LH_ID", "COUPE_NAME", "ENDDATE",
    "HARV_ORG", "HECTARES", "X_FMA", "AREASQM", "X_SILVSYS", "X_BLOCK", "X_FORETYPE",
    "SECTION_SD"
  >>

sa_drop_fields ==
  <<
    "CAPTUREMET", "CAPTURESOU", "COMMENTS", "DATERELIAB", "FEATURESOU", "FINANCIALY",
    "FIREDATE", "FIREYEAR", "HECTARES", "IMAGEINFOR", "INCIDENTNA", "INCIDENTNU", "INCIDENTTY",
    "SEASON"
  >>

\* Line 135: burns_drop_fields = bushfire_drop_fields + [...]
burns_drop_fields == bushfire_drop_fields \o <<"Shape_length_12_13_14", "Shape_area_12_13_14">>

\* Lines 255-257
required_fields == <<"OBJECTID", "Shape", "Shape_Area", "Shape_Length">>

geometry_fields(c) ==
  LET geo == SelectSeq(c.fields, LAMBDA f : Lower(f.type) \in {Lower("Geometry"), Lower("Shape")})
  IN  [i \in 1..Len(geo) |-> geo[i].name]

keep_fields_and_label(c) == <<"Source", "Burn_Date", "Label">> \o geometry_fields(c)

\* Lines 255-262
keep_fields(c) == <<"Source", "Burn_Date">> \o geometry_fields(c)

InSeq(x, seq) == \E i \in 1..Len(seq) : seq[i] = x

all_fields(c) == [i \in 1..Len(c.fields) |-> c.fields[i].name]

drop_fields_required_by_exact_name(c) ==
  SelectSeq(all_fields(c),
            LAMBDA f : ~InSeq(f, keep_fields(c)) /\ ~InSeq(f, required_fields))

\* Lines 265-269: the fields the final cleanup deletes.
drop_fields(c) ==
  SelectSeq(all_fields(c),
            LAMBDA f : /\ ~InSeq(f, keep_fields(c))
                       /\ ~\E i \in 1..Len(required_fields) : Upper(required_fields[i]) = Upper(f))

\* Lines 128-129 and the like: the denylist restricted to the fields present.
present_of(denylist, c) == SelectSeq(denylist, LAMBDA f : f \in FieldNames(c))

(***************************************************************************)
(* The raw inputs.  "Assumes all referenced feature classes/tables exist   *)
(* in the geodatabase": the six inputs exist before the first run.         *)
(***************************************************************************)
SystemHead(shape) == <<Fld("OBJECTID", "OID"), Fld(shape, "Geometry")>>

Rec(fields, values) == [f \in {fields[i].name : i \in 1..Len(fields)} |->
                          values[CHOOSE i \in 1..Len(fields) : fields[i].name = f]]

\* A layer that only covers ground: the Victorian extent, the not-feasible extent.
ExtentLayer(id, extent) ==
  Coll(SystemHead("Shape"), <<Rec(SystemHead("Shape"), <<IntV(id), GeomV(id, extent)>>)>>)

\* NSW: upper-case system field names; with or without a text field SOURCE of its own.
NPWSInput(hasSOURCE) ==
  LET fields == SystemHead("SHAPE") \o <<Fld("StartDate", "Date"), Fld("Label", "String")>>
                \o (IF hasSOURCE THEN <<Fld("SOURCE", "String")>> ELSE <<>>)
                \o <<Fld("SHAPE_Length", "Double"), Fld("SHAPE_Area", "Double")>>
      row(id, region, date) ==
        Rec(fields, <<IntV(id), GeomV(id, region), date, Tok("park")>>
                    \o (IF hasSOURCE THEN <<Tok("NPWS")>> ELSE <<>>) \o <<Null, Null>>)
  IN  Coll(fields, <<row(1, "NSW", DateV(2021, 1, 15)), row(2, "VIC", DateV(2020, 2, 3))>>)

\* Victoria: START_DATE_INT stored as text or as a long integer; raw is the first
\* record's date (0 for null).  The third record is of season 2015 with no fire cover.
DEECAInput(sdiType, raw) ==
  LET fields == SystemHead("Shape") \o
                <<Fld("FIRETYPE", "String"), Fld("SEASON", "Integer"),
                  Fld("START_DATE_INT", sdiType), Fld("TREATMENT_TYPE", "String"),
                  Fld("FIRE_SEVERITY", "String"), Fld("FIRE_COVER", "String"),
                  Fld("Shape_Length", "Double"), Fld("Shape_Area", "Double")>>
      date(i) == IF i = 0 THEN Null
                 ELSE IF sdiType = "String" THEN StrV(PyStr(i)) ELSE IntV(i)
  IN  Coll(fields,
           <<Rec(fields, <<IntV(11), GeomV(11, "VIC"), Tok("BUSHFIRE"), IntV(2010), date(raw),
                           Null, Tok("BURNT_2F"), Null, Null, Null>>),
             Rec(fields, <<IntV(12), GeomV(12, "VIC"), Tok("BURN"), IntV(2015), date(20150312),
                           Tok("FUEL REDUCTION"), Tok("BURNT_2F"), Tok("50-69"), Null, Null>>),
             Rec(fields, <<IntV(13), GeomV(13, "VIC"), Tok("BUSHFIRE"), IntV(2015), date(20150420),
                           Null, Tok("BURNT_2F"), Null, Null, Null>>)>>)

LASTLOGInput ==
  LET fields == SystemHead("Shape") \o
                <<Fld("SILVSYS", "String"), Fld("ENDDATE", "Date"), Fld("HECTARES", "Double"),
                  Fld("Shape_Length", "Double"), Fld("Shape_Area", "Double")>>
  IN  Coll(fields,
           <<Rec(fields, <<IntV(21), GeomV(21, "VIC"), Tok("CFE"), DateV(2019, 3, 7),
                           Null, Null, Null>>),
             Rec(fields, <<IntV(22), GeomV(22, "VIC"), Tok("THN"), DateV(2018, 6, 30),
                           Null, Null, Null>>)>>)

\* South Australia: FIREDATE a date field, or (textDate) a text field whose one value
\* is no date at all.
SAInput(empty, textDate) ==
  LET fields == SystemHead("Shape") \o
                <<Fld("FIREDATE", IF textDate THEN "String" ELSE "Date"),
                  Fld("FIREYEAR", "Integer"),
                  Fld("Shape_Length", "Double"), Fld("Shape_Area", "Double")>>
  IN  Coll(fields,
           IF empty THEN <<>>
           ELSE <<Rec(fields, <<IntV(31), GeomV(31, "SA"),
                                IF textDate THEN StrV(<<"n", "/", "a">>) ELSE DateV(2020, 12, 25),
                                IntV(2020), Null, Null>>)>>)

RawDates == {0, 20231305, 20230405}

\* fault: "none"; "no_lastlog" (LASTLOG25 is not in the geodatabase); "text_firedate".
Workspace(hasSOURCE, sdiType, raw, saEmpty, fault) ==
  [n \in CollNames |->
     IF n = NPWSFireHistory THEN NPWSInput(hasSOURCE)
     ELSE IF n = VicShape_vg94 THEN ExtentLayer(91, "VIC_ALL")
     ELSE IF n = DEECA_FIRE_HISTORY_TREATED THEN DEECAInput(sdiType, raw)
     ELSE IF n = ECOFIRE_NotfeasibletotreatLow THEN ExtentLayer(92, "LOW_ALL")
     ELSE IF n = LASTLOG25 THEN (IF fault = "no_lastlog" THEN NoColl ELSE LASTLOGInput)
     ELSE IF n = SA_FireHistory THEN SAInput(saEmpty, fault = "text_firedate")
     ELSE NoColl]

Present(w) == {n \in CollNames : w[n].present}

IdleHarness ==
  /\ fc = NoColl
  /\ fcall = <<>>
  /\ fhist = <<>>
  /\ rm = <<>>

\* The input variations: every date type and raw date of the first Victorian record;
\* an NSW layer with a SOURCE field; an empty South Australian layer; a missing input;
\* a South Australian date that is no date.
Scenarios ==
  {<<FALSE, sdiType, raw, FALSE, "none">> : sdiType \in {"String", "Integer"}, raw \in RawDates}
  \cup {<<TRUE, "String", 20230405, FALSE, "none">>, <<FALSE, "String", 20230405, TRUE, "none">>,
        <<FALSE, "String", 20230405, FALSE, "no_lastlog">>,
        <<FALSE, "String", 20230405, FALSE, "text_firedate">>}

Init ==
  /\ \E sc \in Scenarios : ws = Workspace(sc[1], sc[2], sc[3], sc[4], sc[5])
  /\ pc = "1"
  /\ sub = "entry"
  /\ status = "running"
  /\ prevEnd = "none"
  /\ existed = Present(ws)
  /\ writes = {}
  /\ delLog = {}
  /\ IdleHarness

(***************************************************************************)
(* FireHistoryMakerBREPS_2025: one action per engine call.                 *)
(***************************************************************************)
Go(newWs, newPc, newSub, newStatus, w, d) ==
  /\ ws' = newWs
  /\ pc' = newPc
  /\ sub' = newSub
  /\ status' = newStatus
  /\ writes' = writes \cup w
  /\ delLog' = delLog \cup d
  /\ UNCHANGED <<prevEnd, existed, harnessVars>>

\* An exception leaves the function: the run is over, the workspace stays as it is.
Raised == Go(ws, pc, sub, "raised", {}, {})

StatusAt(next) == IF next = "end" THEN "done" ELSE "running"

\* if not exists(out): <tool>(..., out)
GuardedStage(label, next, out, result) ==
  /\ pc = label
  /\ status = "running"
  /\ IF exists(out) THEN Go(ws, next, "entry", StatusAt(next), {}, {})
     ELSE IF result.ok
          THEN Go([ws EXCEPT ![out] = result.c], next, "entry", StatusAt(next),
                  {<<out, "create">>}, {})
          ELSE Raised

\* add_and_calc_field(name, ...) as its engine calls: AddField_management (line 38),
\* then CalculateField_management (line 39); or CalculateField_management on the
\* field found (line 41); or the notice of line 43.
AddAndCalcStep(label, next, name, field_name, field_type, calc_expr) ==
  /\ pc = label
  /\ status = "running"
  /\ LET c == ws[name]
         field_found == FindField(c, field_name)
     IN  IF ~c.present THEN Raised
         ELSE IF sub = "entry" /\ field_found = 0
         THEN LET a == AddField_management(c, field_name, field_type)
              IN  IF a.ok
                  THEN Go([ws EXCEPT ![name] = a.c], label, "added", "running",
                          {<<name, "add_field">>}, {})
                  ELSE Raised
         ELSE IF sub = "added" \/ TypeMatches(field_type, c.fields[field_found].type)
         THEN LET r == CalculateField_management(
                         c, IF sub = "added" THEN field_name ELSE c.fields[field_found].name,
                         calc_expr)
              IN  IF r.ok
                  THEN Go([ws EXCEPT ![name] = r.c], next, "entry", "running",
                          {<<name, "compute_field">>}, {})
                  ELSE Raised
         ELSE Go(ws, next, "entry", "running", {}, {})

\* The fields of a DeleteField_management call, as logged.
Deleted(name, c, drop) ==
  {[coll |-> name, field |-> drop[i], type |-> c.fields[FindField(c, drop[i])].type] :
     i \in 1..Len(drop)}

\* existing = ListFields(name); drop = [...]; if drop: DeleteField_management(name, drop)
DeleteStep(label, next, name, drop) ==
  /\ pc = label
  /\ status = "running"
  /\ LET c == ws[name]
     IN  IF ~c.present THEN Raised
         ELSE IF drop = <<>> THEN Go(ws, next, "entry", "running", {}, {})
         ELSE LET r == DeleteField_management(c, drop)
              IN  IF r.ok
                  THEN Go([ws EXCEPT ![name] = r.c], next, "entry", "running",
                          {<<name, "delete_fields">>}, Deleted(name, c, drop))
                  ELSE Go(ws, pc, sub, "raised", {}, Deleted(name, c, drop))

Step1_Erase ==
  GuardedStage("1", "2", NPWS_FH23_VG94_Er,
               Erase_analysis(ws[NPWSFireHistory], ws[VicShape_vg94]))

Step2_Select ==
  GuardedStage("2", "3", FIRE_HISTORY_TREATED_Select,
               Select_analysis(ws[DEECA_FIRE_HISTORY_TREATED], "burnt"))

Step3_NullDates ==
  AddAndCalcStep("3", "4", FIRE_HISTORY_TREATED_Select, "START_DATE_INT", "TEXT",
                 Expr("updateDate", "START_DATE_INT", ""))

\* Step 4: CalculateField_management(..., "round_mth(!START_DATE_INT!)", ...)
MonthFix(c) == CalculateField_management(c, "START_DATE_INT", Expr("round_mth", "START_DATE_INT", ""))

Step4_MonthFix ==
  /\ pc = "4"
  /\ status = "running"
  /\ LET r == MonthFix(ws[FIRE_HISTORY_TREATED_Select])
     IN  IF r.ok
         THEN Go([ws EXCEPT ![FIRE_HISTORY_TREATED_Select] = r.c], "5", "entry", "running",
                 {<<FIRE_HISTORY_TREATED_Select, "compute_field">>}, {})
         ELSE Raised

Step5_BurnDate ==
  AddAndCalcStep("5", "6", FIRE_HISTORY_TREATED_Select, "Burn_Date", "LONG",
                 Expr("field", "START_DATE_INT", ""))

Step6_SelectMinCover ==
  GuardedStage("6", "7", FIRE_HISTORY_vg94_post2011_mincover,
               Select_analysis(ws[FIRE_HISTORY_TREATED_Select], "mincover"))

Step7_SelectBushfires ==
  GuardedStage("7", "7b", FIRE_HISTORY_vg94_Bushfires,
               Select_analysis(ws[FIRE_HISTORY_vg94_post2011_mincover], "bushfires"))

Step7_SelectBurns ==
  GuardedStage("7b", "8", FIRE_HISTORY_vg94_Burns,
               Select_analysis(ws[FIRE_HISTORY_vg94_post2011_mincover], "burns"))

Step8_Erase ==
  GuardedStage("8", "9", FIRE_HISTORY_vg94_Burns_Treatable,
               Erase_analysis(ws[FIRE_HISTORY_vg94_Burns], ws[ECOFIRE_NotfeasibletotreatLow]))

Step9_DeleteFields ==
  DeleteStep("9", "9b", FIRE_HISTORY_vg94_Bushfires,
             present_of(bushfire_drop_fields, ws[FIRE_HISTORY_vg94_Bushfires]))

Step9_Source ==
  AddAndCalcStep("9b", "10", FIRE_HISTORY_vg94_Bushfires, "Source", "TEXT",
                 Expr("literal", "", "BUSHFIRES"))

Step10_DeleteFields ==
  DeleteStep("10", "10b", FIRE_HISTORY_vg94_Burns_Treatable,
             present_of(burns_drop_fields, ws[FIRE_HISTORY_vg94_Burns_Treatable]))

Step10_Source ==
  AddAndCalcStep("10b", "11", FIRE_HISTORY_vg94_Burns_Treatable, "Source", "TEXT",
                 Expr("literal", "", "Burns"))

Step11_SelectFilter ==
  GuardedStage("11", "11b", LASTLOG25_filter, Select_analysis(ws[LASTLOG25], "silvsys"))

Step11_SelectDates ==
  GuardedStage("11b", "11c", LASTLOG25_dates, Select_analysis(ws[LASTLOG25_filter], "enddate"))

Step11_BurnDate ==
  AddAndCalcStep("11c", "11d", LASTLOG25_dates, "Burn_Date", "LONG",
                 Expr("format_enddate", "ENDDATE", ""))

Step11_DeleteFields ==
  DeleteStep("11d", "11e", LASTLOG25_dates, present_of(lastlog_drop_fields, ws[LASTLOG25_dates]))

Step11_Source ==
  AddAndCalcStep("11e", "12", LASTLOG25_dates, "Source", "TEXT",
                 Expr("literal", "", "LASTLOG25"))

Step12_Project ==
  GuardedStage("12", "13", LASTLOG_vg94_DF, Project_management(ws[LASTLOG25_dates]))

Step13_Merge ==
  GuardedStage("13", "14", FIRE_HISTORY_vg94_merge1,
               Merge_management(<<ws[FIRE_HISTORY_vg94_Bushfires],
                                  ws[FIRE_HISTORY_vg94_Burns_Treatable], ws[LASTLOG_vg94_DF]>>))

Step14_Clip ==
  GuardedStage("14", "15", FIRE_HISTORY_vg94_merge1_Cli,
               Clip_analysis(ws[FIRE_HISTORY_vg94_merge1], ws[VicShape_vg94]))

Step15_Erase ==
  GuardedStage("15", "15a", SA_FH_VG94_Er, Erase_analysis(ws[SA_FireHistory], ws[VicShape_vg94]))

Step15_BurnDate ==
  AddAndCalcStep("15a", "15c", SA_FH_VG94_Er, "Burn_Date", "LONG",
                 Expr("format_firedate", "FIREDATE", ""))

Step15_Source ==
  AddAndCalcStep("15c", "15d", SA_FH_VG94_Er, "Source", "TEXT", Expr("literal", "", "SA"))

Step15_DeleteFields ==
  DeleteStep("15d", "15b", SA_FH_VG94_Er, present_of(sa_drop_fields, ws[SA_FH_VG94_Er]))

Step15b_BurnDate ==
  AddAndCalcStep("15b", "15e", NPWS_FH23_VG94_Er, "Burn_Date", "LONG",
                 Expr("format_startdate", "StartDate", ""))

Step15b_Source ==
  AddAndCalcStep("15e", "16", NPWS_FH23_VG94_Er, "Source", "TEXT", Expr("literal", "", "NSW"))

Step16_Merge ==
  GuardedStage("16", "17", FH_merge,
               Merge_management(<<ws[NPWS_FH23_VG94_Er], ws[FIRE_HISTORY_vg94_merge1_Cli],
                                  ws[SA_FH_VG94_Er]>>))

Step17_Project ==
  GuardedStage("17", "18", fh_merge_vg94, Project_management(ws[FH_merge]))

Step18_DeleteFields ==
  DeleteStep("18", "19", fh_merge_vg94,
             IF ws[fh_merge_vg94].present THEN drop_fields(ws[fh_merge_vg94]) ELSE <<>>)

Step19_Sort ==
  GuardedStage("19", "20", BREPS_FireHistory_2025,
               Sort_management(ws[fh_merge_vg94], "Burn_Date"))

Step20_Copy ==
  GuardedStage("20", "end", BREPS_FireHistory_2025_Clean,
               CopyFeatures_management(ws[BREPS_FireHistory_2025]))

\* The process is stopped from outside between two engine calls.
Abort ==
  /\ status = "running"
  /\ status' = "aborted"
  /\ UNCHANGED <<ws, pc, sub, prevEnd, existed, writes, delLog, harnessVars>>

\* The script is started again over the workspace the last run left.
Rerun ==
  /\ status \in {"done", "raised", "aborted"}
  /\ prevEnd' = status
  /\ status' = "running"
  /\ pc' = "1"
  /\ sub' = "entry"
  /\ existed' = Present(ws)
  /\ writes' = {}
  /\ UNCHANGED <<ws, delLog, harnessVars>>

Next ==
  \/ Step1_Erase \/ Step2_Select \/ Step3_NullDates \/ Step4_MonthFix \/ Step5_BurnDate
  \/ Step6_SelectMinCover \/ Step7_SelectBushfires \/ Step7_SelectBurns \/ Step8_Erase
  \/ Step9_DeleteFields \/ Step9_Source \/ Step10_DeleteFields \/ Step10_Source
  \/ Step11_SelectFilter \/ Step11_SelectDates \/ Step11_BurnDate \/ Step11_DeleteFields
  \/ Step11_Source \/ Step12_Project \/ Step13_Merge \/ Step14_Clip
  \/ Step15_Erase \/ Step15_BurnDate \/ Step15_Source \/ Step15_DeleteFields
  \/ Step15b_BurnDate \/ Step15b_Source \/ Step16_Merge \/ Step17_Project
  \/ Step18_DeleteFields \/ Step19_Sort \/ Step20_Copy
  \/ Abort \/ Rerun

Spec == Init /\ [][Next]_vars

(***************************************************************************)
(* add_and_calc_field on its own: calls with arguments drawn from small    *)
(* sets, on a collection that has, or has not, the field already.          *)
(***************************************************************************)
\* Calls made in a row on the same collection.
MaxCalls == 2

IdlePipeline ==
  /\ ws = [n \in CollNames |-> NoColl]
  /\ pc = "idle"
  /\ sub = "entry"
  /\ status = "idle"
  /\ prevEnd = "none"
  /\ existed = {}
  /\ writes = {}
  /\ delLog = {}

\* A two-record table with a text date field, and optionally one more field.
FieldTable(extra) ==
  LET fields == SystemHead("Shape") \o <<Fld("START_DATE_INT", "String")>> \o extra
      blank == [i \in 1..Len(extra) |-> Null]
  IN  Coll(fields,
           <<Rec(fields, <<IntV(1), GeomV(1, "VIC"), Null>> \o blank),
             Rec(fields, <<IntV(2), GeomV(2, "VIC"), StrV(PyStr(20231305))>> \o blank)>>)

FieldTables ==
  {FieldTable(<<>>), FieldTable(<<Fld("SOURCE", "String")>>),
   FieldTable(<<Fld("Source", "Integer")>>), FieldTable(<<Fld("Burn_Date", "Integer")>>),
   FieldTable(<<Fld("Burn_Date", "Date")>>)}

\* Pure expressions: a literal, another field, and two that read the field written.
FieldExprs(field_name) ==
  {Expr("literal", "", "SA"), Expr("field", "START_DATE_INT", ""),
   Expr("format_enddate", "ENDDATE", ""), Expr("updateDate", field_name, ""),
   Expr("append", field_name, "1")}

InitField ==
  /\ IdlePipeline
  /\ fc \in FieldTables
  /\ fcall = <<>>
  /\ fhist = <<>>
  /\ rm = <<>>

\* One call of add_and_calc_field; fhist keeps, per call, the arguments, the
\* collection before and after, and whether the call returned.
FieldCall ==
  /\ fc.present
  /\ Len(fhist) < MaxCalls
  /\ \E field_name \in {"Source", "Burn_Date"}, field_type \in {"TEXT", "LONG"} :
       \E calc_expr \in FieldExprs(field_name) :
         LET r == add_and_calc_field(fc, field_name, field_type, calc_expr)
             call == [field_name |-> field_name, field_type |-> field_type,
                      calc_expr |-> calc_expr]
         IN  /\ fc' = r.c
             /\ fcall' = call
             /\ fhist' = Append(fhist, [call |-> call, before |-> fc, after |-> r.c,
                                        ok |-> r.ok])
  /\ UNCHANGED <<pipeVars, rm>>

NextField == FieldCall

SpecField == InitField /\ [][NextField]_vars

(***************************************************************************)
(* The month repair of step 4 on its own: one record, every month.         *)
(***************************************************************************)
MonthTable(type, value) ==
  LET fields == SystemHead("Shape") \o <<Fld("START_DATE_INT", type)>>
  IN  Coll(fields, <<Rec(fields, <<IntV(1), GeomV(1, "VIC"), value>>)>>)

InitMonth ==
  /\ IdlePipeline
  /\ fc = NoColl
  /\ fcall = <<>>
  /\ fhist = <<>>
  /\ rm = <<>>

\* START_DATE_INT holds y, m, d as eight digits, text or number; step 4 runs.
MonthRepair ==
  /\ rm = <<>>
  /\ \E type \in {"String", "Integer"}, y \in {1999, 2023}, m \in 0..MaxMonth, d \in {1, 5, 31} :
       LET i == y * 10000 + m * 100 + d
           c == MonthTable(type, IF type = "String" THEN StrV(PyStr(i)) ELSE IntV(i))
           r == MonthFix(c)
       IN  rm' = <<[y |-> y, m |-> m, d |-> d, before |-> c, after |-> r.c, ok |-> r.ok]>>
  /\ UNCHANGED <<pipeVars, fc, fcall, fhist>>

NextMonth == MonthRepair

SpecMonth == InitMonth /\ [][NextMonth]_vars

(***************************************************************************)
(* The Burn_Date calculations of steps 11, 15 and 15b on their own: a one- *)
(* record table whose date field holds one date in one of its forms.       *)
(***************************************************************************)
\* Last year of the calendar dates tried.
MaxYear == 2024

\* "YYYY" sep "MM" sep "DD"
TextDate(y, m, d, sep) == Pad(y, 4) \o sep \o Pad(m, 2) \o sep \o Pad(d, 2)

\* A calendar date as the cell value of each form.
DateForm(form, y, m, d) ==
  IF form = "date" THEN DateV(y, m, d)
  ELSE IF form = "dash" THEN StrV(TextDate(y, m, d, <<"-">>))
  ELSE IF form = "slash" THEN StrV(TextDate(y, m, d, <<"/">>))
  ELSE StrV(TextDate(y, m, d, <<>>))

\* Values that are no zero-padded calendar date: null, '2023/4/5', '2023-13-05',
\* '202304', 'n/a', the numbers 20230405 and 5.
OddDates ==
  {Null, StrV(<<"2", "0", "2", "3", "/", "4", "/", "5">>),
   StrV(<<"2", "0", "2", "3", "-", "1", "3", "-", "0", "5">>),
   StrV(<<"2", "0", "2", "3", "0", "4">>), StrV(<<"n", "/", "a">>), IntV(20230405), IntV(5)}

\* The date fields and the code block each Burn_Date calculation applies to them.
DateCalcs ==
  {<<"ENDDATE", "format_enddate">>, <<"FIREDATE", "format_firedate">>,
   <<"StartDate", "format_startdate">>}

DateTable(field, value) ==
  LET type == IF value.k = "str" THEN "String" ELSE IF value.k = "int" THEN "Integer" ELSE "Date"
      fields == SystemHead("Shape") \o <<Fld(field, type)>>
  IN  Coll(fields, <<Rec(fields, <<IntV(1), GeomV(1, "VIC"), value>>)>>)

\* fcall describes the input: the calculation, the form, and the date it stands for.
InitDate ==
  /\ IdlePipeline
  /\ \E calc \in DateCalcs :
       \/ \E form \in {"date", "dash", "slash", "digits"}, y \in (MaxYear - 1)..MaxYear, m \in 1..12 :
            \E d \in 1..DaysIn(y, m) :
              /\ fc = DateTable(calc[1], DateForm(form, y, m, d))
              /\ fcall = [calc |-> calc, form |-> form, ymd |-> y * 10000 + m * 100 + d]
       \/ \E value \in OddDates :
            /\ fc = DateTable(calc[1], value)
            /\ fcall = [calc |-> calc, form |-> "odd", ymd |-> 0]
  /\ fhist = <<>>
  /\ rm = <<>>

\* add_and_calc_field(table, "Burn_Date", "LONG", "format_...(!FIELD!)", code block)
DateCall ==
  /\ fhist = <<>>
  /\ LET calc_expr == Expr(fcall.calc[2], fcall.calc[1], "")
         r == add_and_calc_field(fc, "Burn_Date", "LONG", calc_expr)
     IN  /\ fc' = r.c
         /\ fhist' = <<[call |-> [field_name |-> "Burn_Date", field_type |-> "LONG",
                                  calc_expr |-> calc_expr],
                        before |-> fc, after |-> r.c, ok |-> r.ok]>>
  /\ UNCHANGED <<pipeVars, fcall, rm>>

NextDate == DateCall

SpecDate == InitDate /\ [][NextDate]_vars

(***************************************************************************)
(* Properties.                                                             *)
(***************************************************************************)
IsReservedName(name) == \E i \in 1..Len(required_fields) : Lower(required_fields[i]) = Lower(name)

\* A field of the canonical output: Source, Burn_Date, a reserved or a geometry field.
Canonical(f) ==
  f.name \in {"Source", "Burn_Date"} \/ IsReservedName(f.name) \/ f.type = "Geometry"

HasFieldNamed(c, name) == FindField(c, name) # 0

\* The final cleanup of step 18 has run on the merged, projected collection.
Pruned == ws[fh_merge_vg94].present /\ pc \in {"19", "20", "end"}

\* C1: for every guarded stage whose output existed when the run started, the run
\* issues no write call (create, add_field, compute_field, delete_fields) against
\* that output, and the run does not raise.
C1_StageSkipWritesNothing ==
  \A out \in GuardedOutputs \cap existed :
    status # "raised" /\ \A w \in writes : w[1] # out

\* C2: a re-run after an aborted run never raises, creates no collection that
\* already existed, and when it ends both terminal collections are present.
C2_RerunAfterAbortCompletes ==
  prevEnd = "aborted" =>
    /\ status # "raised"
    /\ \A w \in writes : w[2] = "create" => w[1] \notin existed
    /\ status = "done" =>
         ws[BREPS_FireHistory_2025].present /\ ws[BREPS_FireHistory_2025_Clean].present

\* C3: after the final pruning the schema of the merged collection is exactly
\* Source, Burn_Date, the reserved fields and the geometry fields: nothing else is
\* left, and Source and Burn_Date are there, whatever letter case they were stored in.
C3_FinalFieldSetExact ==
  Pruned =>
    LET c == ws[fh_merge_vg94]
    IN  /\ \A i \in 1..Len(c.fields) :
             \/ Canonical(c.fields[i])
             \/ Lower(c.fields[i].name) \in {Lower("Source"), Lower("Burn_Date")}
        /\ HasFieldNamed(c, "Source")
        /\ HasFieldNamed(c, "Burn_Date")
        /\ \A i \in 1..Len(required_fields) : HasFieldNamed(c, required_fields[i])

DenyLists ==
  {bushfire_drop_fields, burns_drop_fields, lastlog_drop_fields, sa_drop_fields}

\* C4: no DeleteField_management call of the pipeline names a field called OBJECTID,
\* Shape, Shape_Area or Shape_Length in any letter case, or a field of geometry type;
\* the four denylists name no reserved field at all.
C4_ReservedNeverDeleted ==
  /\ \A d \in delLog : ~IsReservedName(d.field) /\ d.type # "Geometry"
  /\ \A list \in DenyLists : \A i \in 1..Len(list) : ~IsReservedName(list[i])

\* C4 witness: an adapter denylist and the final cleanup have both deleted fields, and
\* the cleaned collection still has its reserved fields under upper-case names.
C4_Witness ==
  /\ \E d \in delLog : d.coll = FIRE_HISTORY_vg94_Bushfires
  /\ \E d \in delLog : d.coll = fh_merge_vg94
  /\ Pruned
  /\ "SHAPE_Area" \in FieldNames(ws[fh_merge_vg94])
  /\ "SHAPE" \in FieldNames(ws[fh_merge_vg94])

OnlyCanonical(c) == \A i \in 1..Len(c.fields) : Canonical(c.fields[i])

\* C5 as amended: when a run completes, BREPS_FireHistory_2025 is the sorted copy of
\* the already pruned collection: like BREPS_FireHistory_2025_Clean, which has the
\* same schema and records, it carries no field other than Source, Burn_Date, the
\* reserved fields and the geometry fields.
C5_BothOutputsPruned ==
  status = "done" =>
    /\ ws[BREPS_FireHistory_2025].present
    /\ ws[BREPS_FireHistory_2025_Clean].present
    /\ OnlyCanonical(ws[BREPS_FireHistory_2025])
    /\ ws[BREPS_FireHistory_2025_Clean] = ws[BREPS_FireHistory_2025]

\* C5 witness: a completed run whose merge carried attributes that the cleanup deleted.
C5_Witness ==
  /\ status = "done"
  /\ \E d \in delLog : d.coll = fh_merge_vg94 /\ d.field = "Label"
  /\ Len(ws[BREPS_FireHistory_2025].recs) > 1

\* C5 as claimed: when a run completes, BREPS_FireHistory_2025 still carries merged
\* attributes beyond Source and Burn_Date, and only the Clean copy is pruned.
C5_FinalIsUnpruned ==
  status = "done" =>
    /\ ~OnlyCanonical(ws[BREPS_FireHistory_2025])
    /\ OnlyCanonical(ws[BREPS_FireHistory_2025_Clean])

\* The last two calls of the field normalizer harness had identical arguments.
SameCallTwice ==
  Len(fhist) >= 2 /\ fhist[Len(fhist)].call = fhist[Len(fhist) - 1].call

\* The expression of a call reads the field the call writes.
ReadsTarget(call) ==
  call.calc_expr.fn # "literal" /\ Lower(call.calc_expr.arg) = Lower(call.field_name)

\* C6 as claimed: a second call of add_and_calc_field with identical arguments leaves
\* the schema and every record as the first call left them, for every pure expression.
C6_SecondCallChangesNothing ==
  SameCallTwice => fhist[Len(fhist)].after = fhist[Len(fhist) - 1].after

\* C6 as amended: a second call with identical arguments leaves the schema and every
\* record as the first call left them, for every expression that does not read the
\* field it writes or, like updateDate, returns a non-null value it reads unchanged.
C6_SecondCallChangesNothingUnlessSelfRead ==
  (SameCallTwice /\ (~ReadsTarget(fcall) \/ fcall.calc_expr.fn = "updateDate")) =>
    fhist[Len(fhist)].after = fhist[Len(fhist) - 1].after

\* C6 witness: the first call added the field and gave it values, the second call
\* had the same arguments and calculated again.
C6_Witness ==
  /\ SameCallTwice
  /\ ~ReadsTarget(fcall)
  /\ fcall.field_type = "TEXT"
  /\ ~HasFieldNamed(fhist[Len(fhist) - 1].before, fcall.field_name)
  /\ fhist[Len(fhist) - 1].ok /\ fhist[Len(fhist)].ok
  /\ \E i \in 1..Len(fc.recs) : fc.recs[i][fcall.field_name].k # "null"

\* The field of a harness call exists, with a type other than the one requested.
Conflict(h) ==
  /\ HasFieldNamed(h.before, h.call.field_name)
  /\ h.before.fields[FindField(h.before, h.call.field_name)].type # AddedType(h.call.field_type)

\* C7: when the field exists with a type other than the requested one (text counts
\* as the string type), the call changes neither schema nor values and returns.
C7_TypeConflictIsNoOp ==
  \A i \in 1..Len(fhist) : Conflict(fhist[i]) => fhist[i].after = fhist[i].before /\ fhist[i].ok

\* C7 witness: text was requested for Source, which exists as an integer field, with
\* an expression that would have calculated without error.
C7_Witness ==
  /\ Len(fhist) >= 1
  /\ Conflict(fhist[1])
  /\ fhist[1].call.field_type = "TEXT"
  /\ fhist[1].call.calc_expr.fn = "field"
  /\ fhist[1].before.fields[FindField(fhist[1].before, "Source")].type = "Integer"

CaseUnique(c) ==
  \A i, j \in 1..Len(c.fields) : Lower(c.fields[i].name) = Lower(c.fields[j].name) => i = j

\* C8: a call adds at most one field, and none when the name exists in any letter
\* case; when the field exists with the requested type, the values are calculated
\* into it under its stored name; names stay unique up to letter case.
C8_GrowsByOneCalculatesExisting ==
  \A i \in 1..Len(fhist) :
    LET h == fhist[i]
        found == FindField(h.before, h.call.field_name)
        calc == CalculateField_management(h.before, StoredName(h.before, h.call.field_name),
                                          h.call.calc_expr)
    IN  /\ Len(h.after.fields) <= Len(h.before.fields) + 1
        /\ found # 0 => h.after.fields = h.before.fields
        /\ (found # 0 /\ ~Conflict(h)) => (h.after = calc.c /\ h.ok = calc.ok)
        /\ CaseUnique(h.before) => CaseUnique(h.after)

\* The records of the Victorian selection whose raw START_DATE_INT is null.
RawNull(rec) ==
  LET raw == ws[DEECA_FIRE_HISTORY_TREATED]
  IN  \E i \in 1..Len(raw.recs) :
        raw.recs[i]["OBJECTID"] = rec["OBJECTID"] /\ raw.recs[i]["START_DATE_INT"].k = "null"

\* C9: steps 3 to 5 do not raise, and once they have run every record of the
\* selection whose raw START_DATE_INT was null has Burn_Date 20230101.
C9_NullDateBecomes20230101 ==
  /\ status = "raised" => pc \notin {"3", "4", "5"}
  /\ (status \in {"running", "done"} /\ pc \notin {"1", "2", "3", "4", "5"}) =>
       LET c == ws[FIRE_HISTORY_TREATED_Select]
       IN  \A i \in 1..Len(c.recs) :
             RawNull(c.recs[i]) =>
               HasFieldNamed(c, "Burn_Date") /\ Get(c, c.recs[i], "Burn_Date") = IntV(20230101)

\* The number a cell holds, as text or as integer.
NumberOf(v) == IF v.k = "int" THEN v.n ELSE PyInt(v.s).n

\* C10: the month repair turns YYYYMMDD with MM > 12 into YYYY12DD, leaves a value
\* with MM <= 12 numerically unchanged, and leaves no month above 12.
C10_MonthRepair ==
  \A i \in 1..Len(rm) :
    LET h == rm[i]
        v == NumberOf(h.after.recs[1]["START_DATE_INT"])
    IN  /\ h.ok
        /\ h.after.recs[1]["START_DATE_INT"].k \in {"int", "str"}
        /\ h.m > 12 => v = h.y * 10000 + 1200 + h.d
        /\ h.m <= 12 => v = h.y * 10000 + h.m * 100 + h.d
        /\ (v \div 100) % 100 <= 12

\* C10 witness: "20231305" has become 20231205.
C10_Witness ==
  /\ Len(rm) = 1
  /\ rm[1].before.recs[1]["START_DATE_INT"] = StrV(<<"2", "0", "2", "3", "1", "3", "0", "5">>)
  /\ rm[1].ok
  /\ NumberOf(rm[1].after.recs[1]["START_DATE_INT"]) = 20231205

\* The Burn_Date the date harness calculated.
Calculated == fhist[1].after.recs[1]["Burn_Date"]

\* C11: the Burn_Date calculations return null for null, and for every calendar date
\* the integer YYYYMMDD, whether the date comes as a date object, as 'YYYY-MM-DD', as
\* 'YYYY/MM/DD' or as the digits 'YYYYMMDD'.
C11_DateFormsGiveYYYYMMDD ==
  (Len(fhist) = 1 /\ "form" \in DOMAIN fcall) =>
    /\ fcall.form # "odd" => (fhist[1].ok /\ Calculated = IntV(fcall.ymd))
    /\ fhist[1].before.recs[1][fcall.calc[1]] = Null => (fhist[1].ok /\ Calculated = Null)

\* C11 witness: the text '2023/04/05' in ENDDATE has given Burn_Date 20230405.
C11_Witness ==
  /\ Len(fhist) = 1
  /\ "form" \in DOMAIN fcall
  /\ fhist[1].before.recs[1][fcall.calc[1]]
       = StrV(<<"2", "0", "2", "3", "/", "0", "4", "/", "0", "5">>)
  /\ fcall.calc[1] = "ENDDATE"
  /\ Calculated = IntV(20230405)

\* The labels of the engine calls in the order of the source.
StepOrder ==
  <<"1", "2", "3", "4", "5", "6", "7", "7b", "8", "9", "9b", "10", "10b", "11", "11b", "11c",
    "11d", "11e", "12", "13", "14", "15", "15a", "15c", "15d", "15b", "15e", "16", "17", "18",
    "19", "20", "end">>

PositionOf(label) == CHOOSE i \in 1..Len(StepOrder) : StepOrder[i] = label

\* The run has not gone past the call with the given label.
NotPast(label) == PositionOf(pc) <= PositionOf(label)

Terminals == {BREPS_FireHistory_2025, BREPS_FireHistory_2025_Clean}

NoTerminalExists == \A t \in Terminals : ~ws[t].present

\* The inputs that make an engine call fail: a South Australian FIREDATE that is no
\* date, a missing LASTLOG25, a null START_DATE_INT stored as a long integer.
BadFireDate ==
  ws[SA_FireHistory].fields[3].type = "String" /\ Len(ws[SA_FireHistory].recs) > 0

NoLastlog == ~ws[LASTLOG25].present

IntegerNullDate ==
  LET c == ws[DEECA_FIRE_HISTORY_TREATED]
  IN  c.fields[5].type = "Integer" /\ \E i \in 1..Len(c.recs) : c.recs[i]["START_DATE_INT"].k = "null"

\* C12: a run that raised has created neither terminal collection; the first run over
\* a date no strategy parses does not get past the Burn_Date calculation of step 15,
\* no run gets past step 11 when LASTLOG25 is missing, nor past the month repair of
\* step 4 when it fails: no later step of the run executes, and where every run
\* fails neither terminal collection ever exists.
C12_FailureEndsRun ==
  /\ status = "raised" => \A t \in Terminals : <<t, "create">> \notin writes
  /\ (BadFireDate /\ prevEnd = "none") => (NotPast("15a") /\ NoTerminalExists)
  /\ NoLastlog => (NotPast("11") /\ NoTerminalExists)
  /\ IntegerNullDate => (NotPast("4") /\ NoTerminalExists)

\* C12 witness: the Burn_Date calculation of step 15 has raised on the text 'n/a',
\* after the fourteen steps before it had run.
C12_Witness ==
  /\ BadFireDate
  /\ prevEnd = "none"
  /\ status = "raised"
  /\ pc = "15a"
  /\ ws[FIRE_HISTORY_vg94_merge1_Cli].present
  /\ FindField(ws[SA_FH_VG94_Er], "Burn_Date") # 0

\* Records of the Victorian selection of season 2012 or later with no fire cover.
LateWithoutCover(c, rec) ==
  Get(c, rec, "SEASON").k = "int" /\ Get(c, rec, "SEASON").n >= 2012
  /\ Get(c, rec, "FIRE_COVER").k = "null"

ObjectIds(c) == {c.recs[i]["OBJECTID"].n : i \in 1..Len(c.recs)}

\* C13: once step 6 has created FIRE_HISTORY_vg94_mincover, every record of the
\* selection with season >= 2012 and a null fire cover is in it, as is every record
\* of season < 2012 and every record with one of the five listed covers.
C13_NullCoverAdmitted ==
  ws[FIRE_HISTORY_vg94_post2011_mincover].present =>
    LET c == ws[FIRE_HISTORY_TREATED_Select]
        out == ws[FIRE_HISTORY_vg94_post2011_mincover]
    IN  \A i \in 1..Len(c.recs) :
          (\/ Get(c, c.recs[i], "SEASON").n < 2012
           \/ LateWithoutCover(c, c.recs[i])
           \/ TextIn(Get(c, c.recs[i], "FIRE_COVER"),
                     {"30-49", "50-69", "70-89", "90-100", "UNKNOWN"}))
            => c.recs[i]["OBJECTID"].n \in ObjectIds(out)

\* The collections whose fields steps 9, 10, 11, 15 and 18 delete in place.
DeletionTargets ==
  {FIRE_HISTORY_vg94_Bushfires, FIRE_HISTORY_vg94_Burns_Treatable, LASTLOG25_dates,
   SA_FH_VG94_Er, fh_merge_vg94}

\* The object ids of the records, in order.
IdSeq(c) == [i \in 1..Len(c.recs) |-> c.recs[i]["OBJECTID"].n]

\* Schema a is schema b with one field added at the end.
OneFieldAdded(a, b) == Len(a) = Len(b) + 1 /\ SubSeq(a, 1, Len(b)) = b

\* Schema a is schema b with some fields taken out.
FieldsRemoved(a, b) ==
  a = SelectSeq(b, LAMBDA f : \E i \in 1..Len(a) : a[i] = f) /\ Len(a) < Len(b)

\* C14 as amended: a collection a stage has created is never created again and keeps
\* its records in their order; its schema changes only by one field added (steps 3,
\* 5, 9-11, 15, 15b) or, in the five collections of steps 9, 10, 11, 15 and 18, by
\* fields deleted in place; the two terminal collections never change once written.
C14_CreatedOnlyFieldEdited ==
  [][\A n \in GuardedOutputs :
       ws[n].present =>
         /\ ws'[n].present
         /\ IdSeq(ws'[n]) = IdSeq(ws[n])
         /\ \/ ws'[n].fields = ws[n].fields
            \/ OneFieldAdded(ws'[n].fields, ws[n].fields)
            \/ n \in DeletionTargets /\ FieldsRemoved(ws'[n].fields, ws[n].fields)
         /\ n \in Terminals => ws'[n] = ws[n]]_vars

\* C14 witness: FIRE_HISTORY_vg94_Bushfires, created by step 7, has lost FIRETYPE to
\* step 9 and gained Source, in a run that went on to write the Clean collection.
C14_Witness ==
  /\ status = "done"
  /\ ws[BREPS_FireHistory_2025_Clean].present
  /\ "FIRETYPE" \notin FieldNames(ws[FIRE_HISTORY_vg94_Bushfires])
  /\ "Source" \in FieldNames(ws[FIRE_HISTORY_vg94_Bushfires])
  /\ \E d \in delLog : d.coll = FIRE_HISTORY_vg94_Bushfires /\ d.field = "FIRETYPE"

\* C14 as claimed: no step removes a field from a collection already created, and
\* the Clean collection never changes once written.
C14_NoFieldEverRemoved ==
  [][\A n \in GuardedOutputs :
       ws[n].present =>
         /\ ws'[n].present
         /\ FieldNames(ws[n]) \subseteq FieldNames(ws'[n])
         /\ n = BREPS_FireHistory_2025_Clean => ws'[n] = ws[n]]_vars

\* An integer of the form YYYYMMDD: eight digits, month 01-12, day 01-31.
IsYYYYMMDD(i) ==
  /\ i >= 10000000 /\ i <= 99999999
  /\ (i \div 100) % 100 \in 1..12
  /\ i % 100 \in 1..31

\* C15: whenever a Burn_Date calculation of steps 11, 15 or 15b accepts its input
\* without raising, the Burn_Date is null or an integer of the form YYYYMMDD.
C15_AcceptedGivesYYYYMMDD ==
  (Len(fhist) = 1 /\ fhist[1].ok) =>
    (Calculated = Null \/ (Calculated.k = "int" /\ IsYYYYMMDD(Calculated.n)))

\* The Burn_Date values of a collection, in record order.
BurnDates(c) == [i \in 1..Len(c.recs) |-> Get(c, c.recs[i], "Burn_Date")]

\* C16: in BREPS_FireHistory_2025, and in its Clean copy, every record's Burn_Date is
\* greater than or equal to the next record's; a record with no Burn_Date comes after
\* every record that has one.
C16_SortedDescending ==
  \A t \in Terminals :
    ws[t].present =>
      /\ HasFieldNamed(ws[t], "Burn_Date")
      /\ \A i \in 1..(Len(ws[t].recs) - 1) :
           LET a == BurnDates(ws[t])[i]
               b == BurnDates(ws[t])[i + 1]
           IN  /\ a.k = "null" => b.k = "null"
               /\ (a.k # "null" /\ b.k # "null") => a.n >= b.n

\* C16 witness: the sort stage has written four or more records with different
\* dates, from a merged collection that was not in that order.
C16_Witness ==
  /\ ws[BREPS_FireHistory_2025].present
  /\ Len(ws[BREPS_FireHistory_2025].recs) >= 4
  /\ BurnDates(ws[BREPS_FireHistory_2025])[1].n > BurnDates(ws[BREPS_FireHistory_2025])[4].n
  /\ BurnDates(ws[fh_merge_vg94]) # BurnDates(ws[BREPS_FireHistory_2025])

\* The South Australian input has no records.
SaEmpty == ws[SA_FireHistory].present /\ ws[SA_FireHistory].recs = <<>>

\* The outputs of the NSW, bushfire, burn and logging-history adapters.
OtherAdapters ==
  {NPWS_FH23_VG94_Er, FIRE_HISTORY_vg94_Bushfires, FIRE_HISTORY_vg94_Burns_Treatable,
   LASTLOG_vg94_DF}

\* C17: with an empty South Australian input no run raises; once the final merge
\* exists, SA_FH23_VG94_Er has no records and has the fields Burn_Date and Source;
\* and when a run completes, both terminal collections exist and hold every record
\* of the NSW, bushfire, burn and logging-history adapters.
C17_EmptySouthAustralia ==
  SaEmpty =>
    /\ status # "raised"
    /\ ws[FH_merge].present =>
         /\ ws[SA_FH_VG94_Er].recs = <<>>
         /\ HasFieldNamed(ws[SA_FH_VG94_Er], "Burn_Date")
         /\ HasFieldNamed(ws[SA_FH_VG94_Er], "Source")
    /\ status = "done" =>
         \A t \in Terminals :
           /\ ws[t].present
           /\ \A a \in OtherAdapters : ObjectIds(ws[a]) \subseteq ObjectIds(ws[t])

\* C17 witness: a run over the empty South Australian input is complete; the
\* terminal collection holds the NSW, bushfire, burn and logging records.
C17_Witness ==
  /\ SaEmpty
  /\ status = "done"
  /\ ws[SA_FH_VG94_Er].recs = <<>>
  /\ "Burn_Date" \in FieldNames(ws[SA_FH_VG94_Er])
  /\ ObjectIds(ws[BREPS_FireHistory_2025_Clean]) = {1, 11, 12, 21}

\* The Source literal of the adapter a record of the model's inputs comes through.
TagOf(id) ==
  IF id \in {1, 2} THEN "NSW"
  ELSE IF id \in {11, 13} THEN "BUSHFIRES"
  ELSE IF id = 12 THEN "Burns"
  ELSE IF id \in {21, 22} THEN "LASTLOG25"
  ELSE "SA"

\* Every record of the collection has the Source literal of its adapter.
Tagged(c) ==
  /\ HasFieldNamed(c, "Source")
  /\ \A i \in 1..Len(c.recs) : Get(c, c.recs[i], "Source") = Tok(TagOf(c.recs[i]["OBJECTID"].n))

\* C18: every record of the final merge and of the two terminal collections has, in
\* its Source field, the literal of the adapter it came through.
C18_EveryRecordTagged ==
  /\ ws[FH_merge].present => Tagged(ws[FH_merge])
  /\ \A t \in Terminals : ws[t].present => Tagged(ws[t])

\* C19: the first run over a workspace holding exactly the six raw inputs never
\* fails at a step (every collection a step reads exists when it executes), and
\* ends with both terminal collections created.
C19_DeclaredOrderCompletes ==
  (prevEnd = "none" /\ existed = RawInputs) =>
    /\ status # "raised"
    /\ status = "done" => \A t \in Terminals : ws[t].present /\ <<t, "create">> \in writes

\* The calculations of the pipeline: label, collection, field written, type asked
\* for, field the expression reads ("" for a literal).  Step 4 has no type.
CalcCalls ==
  {<<"3", FIRE_HISTORY_TREATED_Select, "START_DATE_INT", "TEXT", "START_DATE_INT">>,
   <<"4", FIRE_HISTORY_TREATED_Select, "START_DATE_INT", "", "START_DATE_INT">>,
   <<"5", FIRE_HISTORY_TREATED_Select, "Burn_Date", "LONG", "START_DATE_INT">>,
   <<"9b", FIRE_HISTORY_vg94_Bushfires, "Source", "TEXT", "">>,
   <<"10b", FIRE_HISTORY_vg94_Burns_Treatable, "Source", "TEXT", "">>,
   <<"11c", LASTLOG25_dates, "Burn_Date", "LONG", "ENDDATE">>,
   <<"11e", LASTLOG25_dates, "Source", "TEXT", "">>,
   <<"15a", SA_FH_VG94_Er, "Burn_Date", "LONG", "FIREDATE">>,
   <<"15c", SA_FH_VG94_Er, "Source", "TEXT", "">>,
   <<"15b", NPWS_FH23_VG94_Er, "Burn_Date", "LONG", "StartDate">>,
   <<"15e", NPWS_FH23_VG94_Er, "Source", "TEXT", "">>}

\* The call at pc is about to issue CalculateField_management.
WillCalculate(call) ==
  /\ status = "running"
  /\ pc = call[1]
  /\ ws[call[2]].present
  /\ \/ call[4] = ""
     \/ sub = "added"
     \/ /\ HasFieldNamed(ws[call[2]], call[3])
        /\ TypeMatches(call[4], ws[call[2]].fields[FindField(ws[call[2]], call[3])].type)

DeleteLabels == {"9", "10", "11d", "15d", "18"}

====
